---- MODULE Spec2Model ----
(***************************************************************************)
(* A model of src/app.py: a Flask service with eight routes, each wrapped  *)
(* by the before_request / after_request instrumentation middleware that   *)
(* records into a Prometheus registry (pull) and OpenTelemetry instruments *)
(* (push).                                                                 *)
(*                                                                         *)
(* Time is counted in ticks of 10 ms, so time.sleep(random.uniform(0.1,    *)
(* 0.3)) sleeps between 10 and 30 ticks.  A string that the code builds or *)
(* parses (the <int:user_id> path segment, f"User{user_id}") is a sequence *)
(* of pieces, one per digit or sign; a request path is its rule prefix     *)
(* and that segment.  The Flask, Werkzeug, prometheus_client and Python    *)
(* behaviour the program relies on (URL matching, the int converter, the   *)
(* lock inside Counter.inc, except clauses) is modelled at its call site.  *)
(***************************************************************************)
EXTENDS Integers, Sequences, FiniteSets, TLC

\* ---------------------------------------------------------------- bounds
MaxThreads == 2        \* request-handling threads of the server
MaxRequests == 2       \* requests accepted in a run of Spec
MaxConcRequests == 3   \* requests accepted in a run of SpecConc
NegIds == 1            \* the client asks for user ids from -NegIds to 0 ...
MaxUserId == 11        \* ... and from 9 to MaxUserId

Threads == 1 .. MaxThreads

\* ------------------------------------------------------- program constants
UserIdLimit == 10                 \* if user_id > 10
UsersCount == 3                   \* span.set_attribute("users.count", 3)
HelloSleep == <<10, 30>>          \* random.uniform(0.1, 0.3)
UsersSleep == <<5, 15>>           \* random.uniform(0.05, 0.15)
UserSleep == <<5, 20>>            \* random.uniform(0.05, 0.2)
SlowDelay == <<100, 300>>         \* random.uniform(1, 3)
OrderIdRange == <<1000, 9999>>    \* random.randint(1000, 9999)
ErrorMessage == "This is a simulated error for testing"

\* the payment taken before the order is validated
OrderChildrenSwapped ==
  << [span |-> "process-payment",  sleep |-> <<10, 20>>],
     [span |-> "validate-order",   sleep |-> <<2, 5>>],
     [span |-> "update-inventory", sleep |-> <<3, 8>>] >>

\* the three nested spans of create_order, in program order, with their sleeps
OrderChildren ==
  << [span |-> "validate-order",   sleep |-> <<2, 5>>],
     [span |-> "process-payment",  sleep |-> <<10, 20>>],
     [span |-> "update-inventory", sleep |-> <<3, 8>>] >>

\* ------------------------------------------------------------ pure helpers
EmptyFn == [x \in {} |-> 0]

Get(f, k) == IF k \in DOMAIN f THEN f[k] ELSE 0

Put(f, k, v) == [x \in DOMAIN f \cup {k} |-> IF x = k THEN v ELSE f[x]]

Digits == <<"0", "1", "2", "3", "4", "5", "6", "7", "8", "9">>

DigitSet == {Digits[i] : i \in 1 .. 10}

DigitVal(c) == (CHOOSE i \in 1 .. 10 : Digits[i] = c) - 1

\* str(n) of a non-negative int
RECURSIVE StrNat(_)
StrNat(n) == IF n < 10 THEN <<Digits[n + 1]>>
             ELSE StrNat(n \div 10) \o <<Digits[(n % 10) + 1]>>

\* Python's str(int), as used by the client's URL and by the f-strings
Str(n) == IF n < 0 THEN <<"-">> \o StrNat(0 - n) ELSE StrNat(n)

\* int(value) of a string of decimal digits
RECURSIVE ParseNat(_)
ParseNat(s) == IF Len(s) = 0 THEN 0
               ELSE 10 * ParseNat(SubSeq(s, 1, Len(s) - 1)) + DigitVal(s[Len(s)])

\* the sample points a draw of random.uniform(a, b) is checked at
Uniform(r) == {r[1], r[2]}

\* random.randint(a, b + 1)
RandIntWide(r) == {r[1], (r[1] + r[2]) \div 2, r[2] + 1}

\* the sample points a draw of random.randint(a, b) is checked at (b included)
RandInt(r) == {r[1], (r[1] + r[2]) \div 2, r[2]}

\* how long past what was asked a sleep is checked to last: not at all, one tick
Overshoot == {0, 1}

\* a sleep that is cut short
SleepCutShort(d, o) == d - o

\* time.sleep(d) returns after at least d
SleepTime(d, o) == d + o

\* --------------------------------------------------------------- routing
StaticPath(p) == [prefix |-> p, seg |-> <<>>]

UserPath(id) == [prefix |-> "/api/users/", seg |-> Str(id)]

\* @app.route(...): the rule, whether it ends in <int:user_id>, the view
UrlMap ==
  { [rule |-> "/",            int |-> FALSE, endpoint |-> "hello"],
    [rule |-> "/api/users",   int |-> FALSE, endpoint |-> "get_users"],
    [rule |-> "/api/users/",  int |-> TRUE,  endpoint |-> "get_user"],
    [rule |-> "/api/orders",  int |-> FALSE, endpoint |-> "create_order"],
    [rule |-> "/api/error",   int |-> FALSE, endpoint |-> "trigger_error"],
    [rule |-> "/api/slow",    int |-> FALSE, endpoint |-> "slow_endpoint"],
    [rule |-> "/metrics",     int |-> FALSE, endpoint |-> "metrics"],
    [rule |-> "/health",      int |-> FALSE, endpoint |-> "health"] }

\* a route registered without methods= answers GET, HEAD and OPTIONS (the
\* clients here send GET and POST)
RouteMethods == {"GET", "HEAD", "OPTIONS"}

\* the int converter matches \d+ : one or more digits, no sign
IntConverterMatches(seg) ==
  Len(seg) > 0 /\ \A i \in 1 .. Len(seg) : seg[i] \in DigitSet

RuleMatches(r, path) ==
  /\ r.rule = path.prefix
  /\ IF r.int THEN IntConverterMatches(path.seg) ELSE path.seg = <<>>

\* URL matching: the view and its argument, or the routing exception
MatchRequest(method, path) ==
  LET hits == {r \in UrlMap : RuleMatches(r, path)} IN
  IF hits = {} THEN [exc |-> 404, endpoint |-> "", user_id |-> 0]
  ELSE IF method \notin RouteMethods
       THEN [exc |-> 405, endpoint |-> "", user_id |-> 0]
  ELSE LET r == CHOOSE h \in hits : TRUE IN
       [exc |-> 0, endpoint |-> r.endpoint,
        user_id |-> IF r.int THEN ParseNat(path.seg) ELSE 0]

\* ------------------------------------------------------------- the client
\* the ids asked for: around zero and around the limit
ClientIds == ((0 - NegIds) .. 0) \cup ((UserIdLimit - 1) .. MaxUserId)

ClientRequests ==
  {[method |-> "GET", path |-> StaticPath(r.rule)] : r \in {u \in UrlMap : ~u.int}}
  \cup {[method |-> "GET", path |-> UserPath(id)] : id \in ClientIds}
  \cup {[method |-> "GET", path |-> StaticPath("/nope")],
        [method |-> "POST", path |-> StaticPath("/api/orders")]}

\* the routes without a sleep, asked for by the concurrent clients
ConcRequests ==
  {[method |-> "GET", path |-> StaticPath(p)] :
      p \in {"/health", "/api/error", "/metrics"}}

NoRequest == [method |-> "", path |-> StaticPath("")]

\* ------------------------------------------------------------------ state
VARIABLES
  now,                    \* time.time(), in ticks
  prom_request_counter,   \* [method, endpoint, status] -> value
  prom_request_duration,  \* [method, endpoint] -> [count, sum]
  otel_request_counter,   \* [endpoint, method] -> value
  otel_request_duration,  \* [endpoint] -> [count, sum]
  locks,                  \* counter children whose value lock is held
  pc,                     \* per thread: where its request is
  req,                    \* per thread: flask.request
  g,                      \* per thread: flask.g
  tr,                     \* per thread: the span stack, span events, attributes
  frame,                  \* per thread: the locals of the view and middleware
  resp,                   \* per thread: the response
  served,                 \* observer: responses delivered, per counter label
  accepted,               \* observer: requests accepted so far
  scraped,                \* observer: the latest exposition generated
  snap,                   \* observer: the metrics when a request served alone arrived
  slept                   \* observer: time that passed during the request

metricVars == <<prom_request_counter, prom_request_duration,
                otel_request_counter, otel_request_duration, locks>>

observerVars == <<served, accepted, scraped, snap, slept>>

vars == <<now, metricVars, pc, req, g, tr, frame, resp, observerVars>>

NoTrace == [stack |-> <<>>, events |-> <<>>, attrs |-> EmptyFn]

NoFrame == [user_id |-> 0, order_id |-> 0, delay |-> 0, child |-> 0,
            raised |-> "", e |-> "", value |-> 0, duration |-> 0]

NoResponse == [status |-> 0, mimetype |-> "", body |-> EmptyFn]

NoSnapshot == [counter |-> EmptyFn, duration |-> EmptyFn,
               otel_counter |-> EmptyFn, otel_duration |-> EmptyFn]

Registry == [counter |-> prom_request_counter, duration |-> prom_request_duration,
            otel_counter |-> otel_request_counter,
            otel_duration |-> otel_request_duration]

Init ==
  /\ now = 0
  /\ prom_request_counter = EmptyFn
  /\ prom_request_duration = EmptyFn
  /\ otel_request_counter = EmptyFn
  /\ otel_request_duration = EmptyFn
  /\ locks = {}
  /\ pc = [t \in Threads |-> "idle"]
  /\ req = [t \in Threads |-> NoRequest]
  /\ g = [t \in Threads |-> EmptyFn]
  /\ tr = [t \in Threads |-> NoTrace]
  /\ frame = [t \in Threads |-> NoFrame]
  /\ resp = [t \in Threads |-> NoResponse]
  /\ served = EmptyFn
  /\ accepted = 0
  /\ scraped = [requests |-> EmptyFn, durations |-> EmptyFn]
  /\ snap = [t \in Threads |-> NoSnapshot]
  /\ slept = [t \in Threads |-> 0]

\* ------------------------------------------------------------------ spans
CurrentSpan(trc) == IF Len(trc.stack) = 0 THEN "" ELSE trc.stack[Len(trc.stack)]

\* tracer.start_as_current_span(name): a child of the current span
StartSpan(trc, name) ==
  [trc EXCEPT !.stack = Append(@, name),
              !.events = Append(@, [ev |-> "start", span |-> name,
                                    arg |-> CurrentSpan(trc)])]

\* leaving the with block ends the span and restores its parent
EndSpan(trc) ==
  [trc EXCEPT !.stack = SubSeq(@, 1, Len(@) - 1),
              !.events = Append(@, [ev |-> "end", span |-> CurrentSpan(trc),
                                    arg |-> ""])]

SetAttribute(trc, key, val) ==
  [trc EXCEPT !.attrs = Put(@, <<CurrentSpan(trc), key>>, val)]

RecordException(trc, msg) ==
  [trc EXCEPT !.events = Append(@, [ev |-> "exception", span |-> CurrentSpan(trc),
                                    arg |-> msg])]

\* the classes an except clause naming a class catches
Mro(cls) == IF cls = "ValueError" THEN {"ValueError", "Exception", "BaseException"}
            ELSE {cls, "Exception", "BaseException"}

CatchesExact(handler, raised) == handler = raised

Catches(handler, raised) == handler \in Mro(raised)

\* ------------------------------------------------------------ the labels
CounterLabels(t) ==
  [method |-> req[t].method, endpoint |-> req[t].path, status |-> resp[t].status]

DurationLabels(t) == [method |-> req[t].method, endpoint |-> req[t].path]

OtelCounterAttrs(t) == [endpoint |-> req[t].path, method |-> req[t].method]

OtelDurationAttrs(t) == [endpoint |-> req[t].path]

\* Histogram.observe / Histogram.record: one more observation of d
Observe(h, k, d) ==
  Put(h, k, IF k \in DOMAIN h THEN [count |-> h[k].count + 1, sum |-> h[k].sum + d]
            ELSE [count |-> 1, sum |-> d])

\* an increment that takes no lock
LockFreeAlways(l) == TRUE

\* a counter child's value lock: free when no thread holds it
LockFree(l) == l \notin locks

\* duration = time.time()
ElapsedSinceEpoch(t) == now

\* duration = time.time() - g.start_time
Elapsed(t) == now - g[t]["start_time"]

\* metrics kept for successful responses only
HasStartTimeAndOk(t) == "start_time" \in DOMAIN g[t] /\ resp[t].status = 200

\* hasattr(g, 'start_time')
HasStartTime(t) == "start_time" \in DOMAIN g[t]

\* if user_id >= 10
UserMissingFromLimit(user_id) == user_id >= UserIdLimit

\* if user_id > 11
UserMissingPastLimit(user_id) == user_id > UserIdLimit + 1

\* if user_id > 10
UserMissing(user_id) == user_id > UserIdLimit

\* an exposition generated after the middleware has counted the request
GenerateLatestCounted ==
  LET own == [method |-> "GET", endpoint |-> StaticPath("/metrics"), status |-> 200] IN
  [requests |-> Put(prom_request_counter, own, Get(prom_request_counter, own) + 1),
   durations |-> prom_request_duration]

\* generate_latest(): the registry's two metric families
GenerateLatest == [requests |-> prom_request_counter,
                   durations |-> prom_request_duration]

Json(status, body) ==
  [status |-> status, mimetype |-> "application/json", body |-> body]

\* ---------------------------------------------------------------- actions
Return(t, r) ==
  /\ resp' = [resp EXCEPT ![t] = r]
  /\ pc' = [pc EXCEPT ![t] = "after_request"]

\* time.sleep(d): the clock moves on for every request in flight
Sleep(d, o) ==
  /\ now' = now + SleepTime(d, o)
  /\ slept' = [u \in Threads |->
                 IF pc[u] = "idle" THEN slept[u] ELSE slept[u] + SleepTime(d, o)]

Receive(t, r) ==
  /\ pc[t] = "idle"
  /\ pc' = [pc EXCEPT ![t] = "before_request"]
  /\ req' = [req EXCEPT ![t] = r]
  /\ accepted' = accepted + 1
  /\ UNCHANGED <<now, metricVars, g, tr, frame, resp, served, scraped, slept>>

\* the server hands a request to a thread (Spec: to its only worker)
Accept(t) ==
  /\ accepted < MaxRequests
  /\ \E r \in ClientRequests : Receive(t, r)
  /\ snap' = [snap EXCEPT ![t] = Registry]

AcceptConc(t) ==
  /\ accepted < MaxConcRequests
  /\ \E r \in ConcRequests : Receive(t, r)
  /\ UNCHANGED snap

before_request(t) ==
  /\ pc[t] = "before_request"
  /\ g' = [g EXCEPT ![t] = Put(@, "start_time", now)]
  /\ pc' = [pc EXCEPT ![t] = "dispatch_request"]
  /\ UNCHANGED <<now, metricVars, req, tr, frame, resp, observerVars>>

\* Flask.dispatch_request: raise the routing exception or call the view
dispatch_request(t) ==
  /\ pc[t] = "dispatch_request"
  /\ LET m == MatchRequest(req[t].method, req[t].path) IN
       IF m.exc # 0
       THEN /\ Return(t, [status |-> m.exc, mimetype |-> "text/html",
                          body |-> [html |-> "HTTPException"]])
            /\ UNCHANGED frame
       ELSE /\ pc' = [pc EXCEPT ![t] = m.endpoint]
            /\ frame' = [frame EXCEPT ![t].user_id = m.user_id]
            /\ UNCHANGED resp
  /\ UNCHANGED <<now, metricVars, req, g, tr, observerVars>>

hello(t) ==
  /\ pc[t] = "hello"
  /\ \E d \in Uniform(HelloSleep), o \in Overshoot : Sleep(d, o)
  /\ tr' = [tr EXCEPT ![t] =
              EndSpan(SetAttribute(StartSpan(@, "hello-span"),
                                   "custom.attribute", "hello-world"))]
  /\ Return(t, Json(200, [message |-> "Hello from OTel Sample App!",
                          status |-> "success"]))
  /\ UNCHANGED <<metricVars, req, g, frame, served, accepted, scraped, snap>>

get_users(t) ==
  /\ pc[t] = "get_users"
  /\ \E d \in Uniform(UsersSleep), o \in Overshoot : Sleep(d, o)
  /\ tr' = [tr EXCEPT ![t] =
              EndSpan(SetAttribute(StartSpan(@, "get-users"),
                                   "users.count", UsersCount))]
  /\ Return(t, Json(200, [users |-> << [id |-> 1, name |-> "Alice"],
                                       [id |-> 2, name |-> "Bob"],
                                       [id |-> 3, name |-> "Charlie"] >>]))
  /\ UNCHANGED <<metricVars, req, g, frame, served, accepted, scraped, snap>>

get_user(t) ==
  /\ pc[t] = "get_user"
  /\ \E d \in Uniform(UserSleep), o \in Overshoot : Sleep(d, o)
  /\ LET user_id == frame[t].user_id
         span == SetAttribute(StartSpan(tr[t], "get-user-by-id"), "user.id", user_id)
     IN IF UserMissing(user_id)
        THEN /\ tr' = [tr EXCEPT ![t] = EndSpan(SetAttribute(span, "error", TRUE))]
             /\ Return(t, Json(404, [error |-> "User not found"]))
        ELSE /\ tr' = [tr EXCEPT ![t] = EndSpan(span)]
             /\ Return(t, Json(200,
                  [user |-> [id |-> user_id,
                             name |-> <<"User">> \o Str(user_id),
                             email |-> <<"user">> \o Str(user_id)
                                         \o <<"@example.com">>]]))
  /\ UNCHANGED <<metricVars, req, g, frame, served, accepted, scraped, snap>>

\* create_order, up to the first nested with
create_order(t) ==
  /\ pc[t] = "create_order"
  /\ tr' = [tr EXCEPT ![t] = StartSpan(@, "create-order")]
  /\ frame' = [frame EXCEPT ![t].child = 1]
  /\ pc' = [pc EXCEPT ![t] = "order_child"]
  /\ UNCHANGED <<now, metricVars, req, g, resp, observerVars>>

\* entering the next nested with block
order_child_enter(t) ==
  /\ pc[t] = "order_child"
  /\ tr' = [tr EXCEPT ![t] = StartSpan(@, OrderChildren[frame[t].child].span)]
  /\ pc' = [pc EXCEPT ![t] = "order_child_body"]
  /\ UNCHANGED <<now, metricVars, req, g, frame, resp, observerVars>>

\* its sleep, and leaving it
order_child_exit(t) ==
  /\ pc[t] = "order_child_body"
  /\ \E d \in Uniform(OrderChildren[frame[t].child].sleep), o \in Overshoot :
       Sleep(d, o)
  /\ tr' = [tr EXCEPT ![t] = EndSpan(@)]
  /\ frame' = [frame EXCEPT ![t].child = @ + 1]
  /\ pc' = [pc EXCEPT ![t] = IF frame[t].child = Len(OrderChildren)
                              THEN "order_id" ELSE "order_child"]
  /\ UNCHANGED <<metricVars, req, g, resp, served, accepted, scraped, snap>>

\* order_id = random.randint(1000, 9999); span.set_attribute("order.id", order_id)
order_id(t) ==
  /\ pc[t] = "order_id"
  /\ \E id \in RandInt(OrderIdRange) :
       /\ frame' = [frame EXCEPT ![t].order_id = id]
       /\ tr' = [tr EXCEPT ![t] = SetAttribute(@, "order.id", id)]
  /\ pc' = [pc EXCEPT ![t] = "order_return"]
  /\ UNCHANGED <<now, metricVars, req, g, resp, observerVars>>

order_return(t) ==
  /\ pc[t] = "order_return"
  /\ tr' = [tr EXCEPT ![t] = EndSpan(@)]
  /\ Return(t, Json(200, [order_id |-> frame[t].order_id, status |-> "created"]))
  /\ UNCHANGED <<now, metricVars, req, g, frame, observerVars>>

\* trigger_error, up to and including the raise
trigger_error(t) ==
  /\ pc[t] = "trigger_error"
  /\ tr' = [tr EXCEPT ![t] =
              SetAttribute(SetAttribute(StartSpan(@, "error-endpoint"), "error", TRUE),
                           "error.type", "SimulatedError")]
  /\ frame' = [frame EXCEPT ![t].raised = "ValueError", ![t].e = ErrorMessage]
  /\ pc' = [pc EXCEPT ![t] = "error_except"]
  /\ UNCHANGED <<now, metricVars, req, g, resp, observerVars>>

\* except Exception as e: ... ; an exception the clause does not catch leaves the
\* view, and Flask answers with its own 500 page
error_except(t) ==
  /\ pc[t] = "error_except"
  /\ IF Catches("Exception", frame[t].raised)
     THEN /\ tr' = [tr EXCEPT ![t] = EndSpan(RecordException(@, frame[t].e))]
          /\ Return(t, Json(500, [error |-> frame[t].e]))
          /\ frame' = [frame EXCEPT ![t].raised = ""]
     ELSE /\ tr' = [tr EXCEPT ![t] = EndSpan(@)]
          /\ Return(t, [status |-> 500, mimetype |-> "text/html",
                        body |-> [html |-> "InternalServerError"]])
          /\ UNCHANGED frame
  /\ UNCHANGED <<now, metricVars, req, g, observerVars>>

\* slow_endpoint, up to the sleep
slow_endpoint(t) ==
  /\ pc[t] = "slow_endpoint"
  /\ \E delay \in Uniform(SlowDelay) :
       /\ frame' = [frame EXCEPT ![t].delay = delay]
       /\ tr' = [tr EXCEPT ![t] =
                   SetAttribute(StartSpan(@, "slow-endpoint"), "delay.seconds", delay)]
  /\ pc' = [pc EXCEPT ![t] = "slow_sleep"]
  /\ UNCHANGED <<now, metricVars, req, g, resp, observerVars>>

slow_sleep(t) ==
  /\ pc[t] = "slow_sleep"
  /\ \E o \in Overshoot : Sleep(frame[t].delay, o)
  /\ tr' = [tr EXCEPT ![t] = EndSpan(@)]
  /\ Return(t, Json(200, [message |-> "Slow operation completed",
                          delay |-> frame[t].delay]))
  /\ UNCHANGED <<metricVars, req, g, frame, served, accepted, scraped, snap>>

metrics(t) ==
  /\ pc[t] = "metrics"
  /\ Return(t, [status |-> 200, mimetype |-> "text/plain", body |-> GenerateLatest])
  /\ scraped' = GenerateLatest
  /\ UNCHANGED <<now, metricVars, req, g, tr, frame, served, accepted, snap, slept>>

health(t) ==
  /\ pc[t] = "health"
  /\ Return(t, Json(200, [status |-> "healthy", service |-> "otel-sample-app"]))
  /\ UNCHANGED <<now, metricVars, req, g, tr, frame, observerVars>>

\* after_request, up to prom_request_counter.labels(...).inc()
after_request(t) ==
  /\ pc[t] = "after_request"
  /\ IF HasStartTime(t)
     THEN /\ frame' = [frame EXCEPT ![t].duration = Elapsed(t)]
          /\ pc' = [pc EXCEPT ![t] = "counter_inc"]
     ELSE /\ pc' = [pc EXCEPT ![t] = "respond"]
          /\ UNCHANGED frame
  /\ UNCHANGED <<now, metricVars, req, g, tr, resp, observerVars>>

\* labels() makes the child on first use; inc() takes the child's lock and reads
counter_inc(t) ==
  /\ pc[t] = "counter_inc"
  /\ LockFree(CounterLabels(t))
  /\ locks' = locks \cup {CounterLabels(t)}
  /\ prom_request_counter' =
       Put(prom_request_counter, CounterLabels(t),
           Get(prom_request_counter, CounterLabels(t)))
  /\ frame' = [frame EXCEPT ![t].value = Get(prom_request_counter, CounterLabels(t))]
  /\ pc' = [pc EXCEPT ![t] = "counter_store"]
  /\ UNCHANGED <<now, prom_request_duration, otel_request_counter,
                 otel_request_duration, req, g, tr, resp, observerVars>>

\* ... stores the value plus one and gives the lock back
counter_store(t) ==
  /\ pc[t] = "counter_store"
  /\ prom_request_counter' =
       Put(prom_request_counter, CounterLabels(t), frame[t].value + 1)
  /\ locks' = locks \ {CounterLabels(t)}
  /\ pc' = [pc EXCEPT ![t] = "observe"]
  /\ UNCHANGED <<now, prom_request_duration, otel_request_counter,
                 otel_request_duration, req, g, tr, frame, resp, observerVars>>

\* the rest of after_request: the histogram and the two OTel instruments
observe(t) ==
  /\ pc[t] = "observe"
  /\ prom_request_duration' =
       Observe(prom_request_duration, DurationLabels(t), frame[t].duration)
  /\ otel_request_counter' =
       Put(otel_request_counter, OtelCounterAttrs(t),
           Get(otel_request_counter, OtelCounterAttrs(t)) + 1)
  /\ otel_request_duration' =
       Observe(otel_request_duration, OtelDurationAttrs(t), frame[t].duration)
  /\ pc' = [pc EXCEPT ![t] = "respond"]
  /\ UNCHANGED <<now, prom_request_counter, locks, req, g, tr, frame, resp,
                 observerVars>>

\* the response leaves; the request context is torn down
respond(t) ==
  /\ pc[t] = "respond"
  /\ served' = Put(served, CounterLabels(t), Get(served, CounterLabels(t)) + 1)
  /\ pc' = [pc EXCEPT ![t] = "idle"]
  /\ req' = [req EXCEPT ![t] = NoRequest]
  /\ g' = [g EXCEPT ![t] = EmptyFn]
  /\ tr' = [tr EXCEPT ![t] = NoTrace]
  /\ frame' = [frame EXCEPT ![t] = NoFrame]
  /\ resp' = [resp EXCEPT ![t] = NoResponse]
  /\ snap' = [snap EXCEPT ![t] = NoSnapshot]
  /\ slept' = [slept EXCEPT ![t] = 0]
  /\ UNCHANGED <<now, metricVars, accepted, scraped>>

\* requests served one at a time
SerialThreads == {1}

Next ==
  \E t \in SerialThreads :
    \/ Accept(t)
    \/ before_request(t)
    \/ dispatch_request(t)
    \/ hello(t)
    \/ get_users(t)
    \/ get_user(t)
    \/ create_order(t)
    \/ order_child_enter(t)
    \/ order_child_exit(t)
    \/ order_id(t)
    \/ order_return(t)
    \/ trigger_error(t)
    \/ error_except(t)
    \/ slow_endpoint(t)
    \/ slow_sleep(t)
    \/ metrics(t)
    \/ health(t)
    \/ after_request(t)
    \/ counter_inc(t)
    \/ counter_store(t)
    \/ observe(t)
    \/ respond(t)

Spec == Init /\ [][Next]_vars

\* a thread per request, on the routes that do not sleep
NextConc ==
  \E t \in Threads :
    \/ AcceptConc(t)
    \/ before_request(t)
    \/ dispatch_request(t)
    \/ trigger_error(t)
    \/ error_except(t)
    \/ metrics(t)
    \/ health(t)
    \/ after_request(t)
    \/ counter_inc(t)
    \/ counter_store(t)
    \/ observe(t)
    \/ respond(t)

SpecConc == Init /\ [][NextConc]_vars

\* ------------------------------------------------------------ properties
\* the view, or routing, has produced the thread's response
Answered(t) ==
  pc[t] \in {"after_request", "counter_inc", "counter_store", "observe", "respond"}

Asked(t, method, path) == req[t].method = method /\ req[t].path = path

UserBody(id) ==
  [user |-> [id |-> id, name |-> <<"User">> \o Str(id),
             email |-> <<"user">> \o Str(id) \o <<"@example.com">>]]

\* C1, as stated: every GET /api/users/{id} with id <= 10, zero and the negative ids
\* included, is answered 200 with user.id = id, name User<id>, email
\* user<id>@example.com.
C1_EveryIdUpToTen ==
  \A t \in Threads, id \in ClientIds :
    (Answered(t) /\ Asked(t, "GET", UserPath(id)) /\ id <= 10) =>
      /\ resp[t].status = 200
      /\ resp[t].mimetype = "application/json"
      /\ resp[t].body = UserBody(id)

\* C1, amended: every GET /api/users/{id} with 0 <= id <= 10 is answered 200 with
\* user.id = id, name User<id>, email user<id>@example.com.
C1_IdsZeroToTen ==
  \A t \in Threads, id \in ClientIds :
    (Answered(t) /\ Asked(t, "GET", UserPath(id)) /\ 0 <= id /\ id <= 10) =>
      /\ resp[t].status = 200
      /\ resp[t].mimetype = "application/json"
      /\ resp[t].body = UserBody(id)

C1_Witness ==
  \E t \in Threads :
    /\ Answered(t)
    /\ Asked(t, "GET", UserPath(10))
    /\ resp[t].status = 200
    /\ accepted = 2

\* C2: every GET /api/users/{id} with id > 10 is answered 404 with the JSON body
\* {"error": "User not found"} and no user object; 10 is served, 11 is not found.
C2_NotFoundAboveTen ==
  \A t \in Threads, id \in ClientIds :
    (Answered(t) /\ Asked(t, "GET", UserPath(id))) =>
      /\ id > 10 => /\ resp[t].status = 404
                    /\ resp[t].mimetype = "application/json"
                    /\ resp[t].body = [error |-> "User not found"]
      /\ id = 10 => resp[t].status = 200

C2_Witness ==
  \E t \in Threads :
    /\ Answered(t)
    /\ Asked(t, "GET", UserPath(11))
    /\ resp[t].status = 404
    /\ tr[t].attrs[<<"get-user-by-id", "user.id">>] = 11

\* C3: an exposition generated by /metrics shows, for every method/path/status, a
\* value no smaller than the number of responses already delivered with those
\* labels, and no smaller than the value the previous exposition showed.
C3_ExpositionNeverBehind ==
  [][\A t \in Threads :
       (pc[t] = "metrics" /\ pc'[t] = "after_request") =>
         /\ \A l \in DOMAIN served :
              Get(resp'[t].body.requests, l) >= served[l]
         /\ \A l \in DOMAIN scraped.requests :
              Get(resp'[t].body.requests, l) >= scraped.requests[l]]_vars

C3_Witness ==
  \E t \in Threads :
    /\ Answered(t)
    /\ Asked(t, "GET", StaticPath("/metrics"))
    /\ Get(served, [method |-> "GET", endpoint |-> StaticPath("/metrics"),
                    status |-> 200]) >= 1
    /\ \E l \in DOMAIN resp[t].body.requests :
         l.status = 500 /\ resp[t].body.requests[l] >= 1

\* the registry as it is once request t, arrived at snap[t], has been recorded
\* once: the counter under cl, the histogram under dl, the OTel counter under ol and
\* the OTel histogram under odl, both histograms with the time the request took
RecordedOnce(t, cl, dl, ol, odl) ==
  /\ prom_request_counter = Put(snap[t].counter, cl, Get(snap[t].counter, cl) + 1)
  /\ prom_request_duration = Observe(snap[t].duration, dl, slept[t])
  /\ otel_request_counter =
       Put(snap[t].otel_counter, ol, Get(snap[t].otel_counter, ol) + 1)
  /\ otel_request_duration = Observe(snap[t].otel_duration, odl, slept[t])

\* the start timestamp is in place from before_request on
StartTimeSet(t) ==
  pc[t] \notin {"idle", "before_request"} =>
    /\ "start_time" \in DOMAIN g[t]
    /\ g[t]["start_time"] = now - slept[t]

\* C4, as stated: every request has its start time set before the view runs and is
\* recorded once in the pull registry, counter and histogram under
\* method/path/status, and once in the push instruments, counter and histogram
\* under method/path.
C4_LabelsAsStated ==
  \A t \in Threads :
    /\ StartTimeSet(t)
    /\ pc[t] = "respond" =>
         RecordedOnce(t,
           [method |-> req[t].method, endpoint |-> req[t].path,
            status |-> resp[t].status],
           [method |-> req[t].method, endpoint |-> req[t].path,
            status |-> resp[t].status],
           [endpoint |-> req[t].path, method |-> req[t].method],
           [endpoint |-> req[t].path, method |-> req[t].method])

\* C4, amended: every request, whatever its route and status, has its start time
\* set before the view runs and is recorded once in the pull registry, the counter
\* under method/path/status and the histogram under method/path, and once in the
\* push instruments, the counter under method/path and the histogram under the
\* path alone.
C4_RecordedTwice ==
  \A t \in Threads :
    /\ StartTimeSet(t)
    /\ pc[t] = "respond" =>
         RecordedOnce(t,
           [method |-> req[t].method, endpoint |-> req[t].path,
            status |-> resp[t].status],
           [method |-> req[t].method, endpoint |-> req[t].path],
           [endpoint |-> req[t].path, method |-> req[t].method],
           [endpoint |-> req[t].path])

C4_Witness ==
  \E t \in Threads :
    /\ pc[t] = "respond"
    /\ resp[t].status \in {404, 500}
    /\ snap[t].counter # EmptyFn
    /\ now > 0

\* C5: every GET /api/error, whatever came before, is answered 500 with the body
\* {"error": "This is a simulated error for testing"}; the exception is recorded on
\* the error-endpoint span and does not leave the view.
C5_ErrorAlways500 ==
  \A t \in Threads :
    (Answered(t) /\ Asked(t, "GET", StaticPath("/api/error"))) =>
      /\ resp[t].status = 500
      /\ resp[t].mimetype = "application/json"
      /\ resp[t].body = [error |-> "This is a simulated error for testing"]
      /\ frame[t].raised = ""
      /\ \E i \in 1 .. Len(tr[t].events) :
           tr[t].events[i] = [ev |-> "exception", span |-> "error-endpoint",
                              arg |-> "This is a simulated error for testing"]

C5_Witness ==
  \E t \in Threads :
    /\ pc[t] = "respond"
    /\ Asked(t, "GET", StaticPath("/api/error"))
    /\ Get(served, [method |-> "GET", endpoint |-> StaticPath("/api/error"),
                    status |-> 500]) >= 1

\* requests whose increment of the counter child l is complete
Incremented(l) ==
  Get(served, l)
  + Cardinality({t \in Threads : pc[t] \in {"observe", "respond"}
                                 /\ CounterLabels(t) = l})

\* what a view that reads nothing shared answers
OwnAnswer(r) ==
  IF r.path = StaticPath("/health")
    THEN Json(200, [status |-> "healthy", service |-> "otel-sample-app"])
  ELSE Json(500, [error |-> "This is a simulated error for testing"])

\* C6: under any interleaving, the counter of each method/path/status stands at
\* exactly the number of requests that have completed their increment of it, and
\* the answer of every view but /metrics is that of the request alone.
C6_NoLostIncrement ==
  /\ \A l \in DOMAIN prom_request_counter \cup DOMAIN served :
       /\ Get(prom_request_counter, l) >= Incremented(l)
       /\ (\A t \in Threads : pc[t] # "counter_store" \/ CounterLabels(t) # l) =>
            Get(prom_request_counter, l) = Incremented(l)
  /\ \A t \in Threads :
       (Answered(t) /\ req[t].path # StaticPath("/metrics")) =>
         resp[t] = OwnAnswer(req[t])

C6_Witness ==
  \E t, u \in Threads :
    /\ t # u
    /\ pc[t] = "counter_store"
    /\ pc[u] = "counter_inc"
    /\ CounterLabels(t) = CounterLabels(u)
    /\ Get(prom_request_counter, CounterLabels(t)) >= 1

\* C7: every GET /api/orders is answered 200 with status "created" and an order_id
\* in 1000 .. 9999, which is also the order.id attribute of the create-order span.
C7_OrderIdInRange ==
  \A t \in Threads :
    (Answered(t) /\ Asked(t, "GET", StaticPath("/api/orders"))) =>
      /\ resp[t].status = 200
      /\ resp[t].body.status = "created"
      /\ resp[t].body.order_id \in 1000 .. 9999
      /\ tr[t].attrs[<<"create-order", "order.id">>] = resp[t].body.order_id

C7_Witness ==
  \E t \in Threads :
    /\ Answered(t)
    /\ Asked(t, "GET", StaticPath("/api/orders"))
    /\ resp[t].body.order_id = 9999

\* C8: every GET /api/slow reports a delay of 1.0 to 3.0 seconds (100 to 300
\* ticks); the view returns only after that much time has passed, and the duration
\* the middleware records is at least the delay.
C8_SlowTakesItsDelay ==
  \A t \in Threads :
    (Answered(t) /\ Asked(t, "GET", StaticPath("/api/slow"))) =>
      /\ resp[t].status = 200
      /\ resp[t].body.delay \in 100 .. 300
      /\ tr[t].attrs[<<"slow-endpoint", "delay.seconds">>] = resp[t].body.delay
      /\ slept[t] >= resp[t].body.delay
      /\ pc[t] # "after_request" => frame[t].duration >= resp[t].body.delay

C8_Witness ==
  \E t \in Threads :
    /\ pc[t] = "respond"
    /\ Asked(t, "GET", StaticPath("/api/slow"))
    /\ resp[t].body.delay = 300
    /\ frame[t].duration > 300

IsPrefix(s, full) == Len(s) <= Len(full) /\ s = SubSeq(full, 1, Len(s))

SpanEvent(ev, span, arg) == [ev |-> ev, span |-> span, arg |-> arg]

OrderEvents ==
  << SpanEvent("start", "create-order", ""),
     SpanEvent("start", "validate-order", "create-order"),
     SpanEvent("end", "validate-order", ""),
     SpanEvent("start", "process-payment", "create-order"),
     SpanEvent("end", "process-payment", ""),
     SpanEvent("start", "update-inventory", "create-order"),
     SpanEvent("end", "update-inventory", ""),
     SpanEvent("end", "create-order", "") >>

\* C9: in a GET /api/orders request create-order starts first; validate-order,
\* process-payment and update-inventory start in that order as its children, each
\* ended before the next starts; the order id is chosen after the third has ended
\* and while create-order is open; create-order ends last.
C9_OrderSpansInSequence ==
  \A t \in Threads :
    Asked(t, "GET", StaticPath("/api/orders")) =>
      /\ IsPrefix(tr[t].events, OrderEvents)
      /\ Len(tr[t].stack) <= 2
      /\ frame[t].order_id # 0 => Len(tr[t].events) >= 7
      /\ pc[t] = "order_return" =>
           frame[t].order_id # 0 /\ tr[t].stack = <<"create-order">>
      /\ Answered(t) => tr[t].events = OrderEvents /\ tr[t].stack = <<>>

C9_Witness ==
  \E t \in Threads :
    /\ pc[t] = "order_return"
    /\ Len(tr[t].events) = 7
    /\ frame[t].order_id = 1000

\* C10: with requests served one at a time, the exposition in a /metrics response
\* shows for every method/path/status exactly the number of responses delivered
\* before it, so k - 1 for GET /metrics 200 in the k-th such response: it does not
\* count its own request.
C10_ExpositionExcludesItself ==
  \A t \in Threads :
    (Answered(t) /\ Asked(t, "GET", StaticPath("/metrics"))) =>
      /\ resp[t].status = 200
      /\ \A l \in DOMAIN resp[t].body.requests \cup DOMAIN served :
           Get(resp[t].body.requests, l) = Get(served, l)

C10_Witness ==
  \E t \in Threads :
    /\ pc[t] = "respond"
    /\ Asked(t, "GET", StaticPath("/metrics"))
    /\ resp[t].body.requests =
         [l \in {[method |-> "GET", endpoint |-> StaticPath("/metrics"),
                  status |-> 200]} |-> 1]
    /\ prom_request_counter[[method |-> "GET", endpoint |-> StaticPath("/metrics"),
                             status |-> 200]] = 2

====
